---- MODULE Spec2Model ----
(***************************************************************************)
(* Session-token lifecycle of the rback chat backend: register, login,     *)
(* refresh (rotation), logout and the per-request auth middleware.         *)
(*                                                                         *)
(* Time is counted in minutes.  A signed token is modelled as its claim    *)
(* set tagged with the key that produced the HMAC; an argon2 encoded hash  *)
(* is modelled as the triple <<scheme, salt, secret>>.  Each handler is    *)
(* split at the points where it awaits the database, so that concurrently  *)
(* running requests interleave exactly at those points.                    *)
(***************************************************************************)
EXTENDS Integers, Sequences, FiniteSets, Bags, TLC

---------------------------------------------------------------------------
(* Bounds of the model *)

\* requests that may be in flight at the same time
MaxCalls == 2
\* token pairs that may be generated in one behaviour (bounds the jti counter)
MaxIssues == 3
\* last value of the clock
MaxTime == 7

---------------------------------------------------------------------------
(* Program constants *)

\* Duration::minutes(5)
AccessTTL == 5
\* Duration::days(7), in minutes
RefreshTTL == 10080
\* jsonwebtoken's Validation::new default leeway (60 seconds), in minutes
Leeway == 1
\* byte offset at which auth_middleware slices the header
TokenOffset == 7
\* length of the encoded Header::default() of a JWT
JwtHeaderLen == 36

\* values the three secrets may be configured with
Keys == {"k1", "k2"}
Salts == {"s1"}
\* a key no secret of the process is ever configured with
ForeignKey == "k0"

---------------------------------------------------------------------------
(* Strings *)

\* a str as the sequence of its characters; "e'" stands for a two-byte
\* UTF-8 character, every other character is one byte wide
CharWidth(ch) == IF ch = "e'" THEN 2 ELSE 1

RECURSIVE ByteLen(_)
ByteLen(s) == IF s = <<>> THEN 0 ELSE CharWidth(Head(s)) + ByteLen(Tail(s))

\* number of leading characters of s that make up exactly n bytes, or -1
\* when byte n is not a character boundary of s (or lies beyond its end)
RECURSIVE CharsInBytes(_, _)
CharsInBytes(s, n) ==
    IF n = 0 THEN 0
    ELSE IF s = <<>> \/ CharWidth(Head(s)) > n THEN -1
    ELSE LET r == CharsInBytes(Tail(s), n - CharWidth(Head(s)))
         IN IF r = -1 THEN -1 ELSE r + 1

starts_with(s, prefix) ==
    /\ Len(s) >= Len(prefix)
    /\ SubSeq(s, 1, Len(prefix)) = prefix

Bearer == <<"B", "e", "a", "r", "e", "r">>
BearerSp == Bearer \o <<" ">>

\* token strings that are not JWTs
RawToken(txt) == [kind |-> "raw", text |-> txt]
EmptyToken == RawToken("")
BlankToken == RawToken("  ")
GarbageToken == RawToken("garbage")

\* str::is_empty() without the trim
trim_is_empty_notrim(t) == t.kind = "raw" /\ t.text = ""

\* str::trim().is_empty()
trim_is_empty(t) == t.kind = "raw" /\ t.text \in {"", "  "}

---------------------------------------------------------------------------
(* argon2 *)

\* deterministic for a given salt and Config::default()
hash_encoded(pwd, slt) == <<"argon2", slt, pwd>>

\* a verification that accepts every password
verify_encoded_any(encoded, pwd) == TRUE

\* recomputes the hash with the salt embedded in the encoded value
verify_encoded(encoded, pwd) == hash_encoded(pwd, encoded[2]) = encoded

---------------------------------------------------------------------------
(* jsonwebtoken *)

\* a lifetime of five minutes for both kinds
TTL_short(kind) == AccessTTL

TTL(kind) == IF kind = "Access" THEN AccessTTL ELSE RefreshTTL

TokenClaims(user, kind, t, id) ==
    [name |-> user.name, email |-> user.email, user_id |-> user.user_id,
     exp |-> t + TTL(kind), token_type |-> kind, used |-> FALSE, jti |-> id]

encode(claims, key) == [kind |-> "jwt", claims |-> claims, sig |-> key]

\* decode that does not check the signature
decode_nosig(token, key, t) ==
    IF token.kind # "jwt" THEN [ok |-> FALSE, err |-> "InvalidToken"]
    ELSE IF token.claims.exp < t - Leeway
         THEN [ok |-> FALSE, err |-> "ExpiredSignature"]
    ELSE [ok |-> TRUE, claims |-> token.claims]

\* decode with Validation::new(Algorithm::HS256): the signature is checked
\* first, then exp with the default leeway
decode(token, key, t) ==
    IF token.kind # "jwt" THEN [ok |-> FALSE, err |-> "InvalidToken"]
    ELSE IF token.sig # key THEN [ok |-> FALSE, err |-> "InvalidSignature"]
    ELSE IF token.claims.exp < t - Leeway
         THEN [ok |-> FALSE, err |-> "ExpiredSignature"]
    ELSE [ok |-> TRUE, claims |-> token.claims]

---------------------------------------------------------------------------
(* State *)

VARIABLES
    salt, accessKey, refreshKey,   \* the three secrets read at startup
    workers,                       \* requests the server runs at the same time
    quota,                         \* token pairs generated in one behaviour
    clients,                       \* the people who register with the service
    faulty,                        \* whether a statement on table tokens may fail
    phase,                         \* how far main has got
    users, nextUserId,             \* table users and its AUTOINCREMENT counter
    tokens, nextTokenId,           \* table tokens and its AUTOINCREMENT counter
    now,                           \* Utc::now()
    nextJti,                       \* Uuid::new_v4(): values never repeat
    calls,                         \* bag of the requests in flight
    response,                      \* the response completed last
    issued,                        \* history: token strings returned to clients
    parentOf,                      \* history: row id -> id of the row it rotated
    refreshed,                     \* history: presented token -> successful refreshes
    loggedOut                      \* history: tokens whose logout has completed

vars == <<salt, accessKey, refreshKey, workers, quota, clients, faulty, phase,
          users, nextUserId, tokens, nextTokenId, now, nextJti, calls, response,
          issued, parentOf, refreshed, loggedOut>>

config == <<salt, accessKey, refreshKey, workers, quota, clients, faulty,
            phase>>
history == <<issued, parentOf, refreshed, loggedOut>>

NoResponse == [op |-> "none"]

InFlight == BagCardinality(calls)

Start(call) == calls' = calls (+) SetToBag({call})
Step(old, new) == calls' = (calls (-) SetToBag({old})) (+) SetToBag({new})
Finish(old) == calls' = calls (-) SetToBag({old})

\* an empty database and a server that runs up to w requests at a time and
\* generates up to n token pairs for the people in who; f tells whether the
\* session store may fail
Opened(w, n, who, f) ==
    /\ workers = w
    /\ quota = n
    /\ clients = who
    /\ faulty = f
    /\ users = {}
    /\ nextUserId = 1
    /\ tokens = {}
    /\ nextTokenId = 1
    /\ now = 0
    /\ nextJti = 1
    /\ calls = EmptyBag
    /\ response = NoResponse
    /\ issued = {}
    /\ parentOf = <<>>
    /\ refreshed = EmptyBag
    /\ loggedOut = {}

\* the state after main has read the secrets and opened the database
Serve(w, refreshKeys, n, who, f) ==
    /\ salt \in Salts
    /\ accessKey = "k1"
    /\ refreshKey \in refreshKeys
    /\ phase = "listening"
    /\ Opened(w, n, who, f)

StrongPass == <<"S", "t", "r", "0", "n", "g", "!", "P", "a", "s", "s">>
OtherPass == <<"A", "n", "0", "t", "h", "e", "r", "#", "P", "w">>
WeakPass == <<"w", "e", "a", "k">>

Alice == [name |-> "alice123", password |-> StrongPass, email |-> "a@x.com"]
Bob == [name |-> "bob456", password |-> OtherPass, email |-> "b@x.com"]
\* a registrant with the name of Alice and one with the email of Alice
Carol == [name |-> "alice123", password |-> OtherPass, email |-> "c@x.com"]
Dave == [name |-> "dave789", password |-> StrongPass, email |-> "a@x.com"]

\* one registrant and a session store that never fails
Boot(w, refreshKeys, n) == Serve(w, refreshKeys, n, {Alice}, FALSE)

\* the value of an environment variable that is not set
Absent == "absent"

\* the process has just been started: each of SALT, SECRET_KEY_ACCESS and
\* SECRET_KEY_REFRESH is set or not
InitBoot ==
    /\ salt \in Salts \cup {Absent}
    /\ accessKey \in {"k1", Absent}
    /\ refreshKey \in (Keys \ {"k1"}) \cup {Absent}
    /\ phase = "starting"
    /\ Opened(1, 2, {Alice}, FALSE)

\* main that only insists on the salt
main_saltonly ==
    /\ phase = "starting"
    /\ phase' = IF salt = Absent THEN "aborted" ELSE "listening"
    /\ UNCHANGED <<salt, accessKey, refreshKey, workers, quota, clients, faulty,
                   users, nextUserId, tokens, nextTokenId, now, nextJti, calls,
                   response, issued, parentOf, refreshed, loggedOut>>

\* main up to axum::serve: env::var(..).expect(..) panics on a variable that
\* is not set, before the listener is bound
main ==
    /\ phase = "starting"
    /\ phase' = IF Absent \in {salt, accessKey, refreshKey}
                THEN "aborted"
                ELSE "listening"
    /\ UNCHANGED <<salt, accessKey, refreshKey, workers, quota, clients, faulty,
                   users, nextUserId, tokens, nextTokenId, now, nextJti, calls,
                   response, issued, parentOf, refreshed, loggedOut>>

\* SECRET_KEY_ACCESS and SECRET_KEY_REFRESH hold different values
Init == Boot(MaxCalls, Keys \ {"k1"}, MaxIssues)

\* one request at a time and two token pairs; the two keys may also be
\* configured equal
InitGate == Boot(1, Keys, 2)

\* one request at a time and a single login
InitClock == Boot(1, Keys, 1)

\* one request at a time, two registrants and three token pairs
InitUsers == Serve(1, Keys \ {"k1"}, 3, {Alice, Bob}, FALSE)

\* one request at a time and two token pairs; statements on table tokens
\* may fail
InitFault == Serve(1, Keys \ {"k1"}, 2, {Alice}, TRUE)

\* the outcomes of one statement on table tokens: TRUE when it fails
StoreFailures == IF faulty THEN {FALSE, TRUE} ELSE {FALSE}

---------------------------------------------------------------------------
(* Authorization headers *)

NoHeader == [kind |-> "absent"]
\* a header value that is not valid UTF-8: HeaderValue::to_str fails
BinaryHeader == [kind |-> "binary"]
\* a header value made of the characters text followed by the token string tok
TextHeader(text, tok) == [kind |-> "text", text |-> text, tok |-> tok]

\* length in bytes of a token string; a JWT is at least as long as its
\* encoded header
TokenLen(t) == IF t.kind = "raw" THEN Len(t.text) ELSE JwtHeaderLen

\* &auth_header[7..]: the str from byte offset 7 on; slicing panics when the
\* offset lies beyond the end or inside a multi-byte character
SliceFromOffset(h) ==
    LET n == ByteLen(h.text)
        k == CharsInBytes(h.text, TokenOffset)
    IN IF TokenOffset <= n
       THEN IF k = -1 THEN [panic |-> TRUE]
            ELSE IF k = Len(h.text) THEN [panic |-> FALSE, token |-> h.tok]
            ELSE [panic |-> FALSE, token |-> RawToken("other")]
       ELSE IF TokenOffset - n > TokenLen(h.tok) THEN [panic |-> TRUE]
            ELSE IF TokenOffset - n = TokenLen(h.tok)
                 THEN [panic |-> FALSE, token |-> EmptyToken]
            ELSE [panic |-> FALSE, token |-> RawToken("truncated")]

NoClaims == [user_id |-> 0]

\* the decision of auth_middleware for one request: its outcome, whether
\* decode was called, and the claims inserted into the request extensions
AuthDecision(h, key, t) ==
    IF h.kind # "text"
    THEN [outcome |-> "Unauthorized", decoded |-> FALSE, extension |-> NoClaims]
    ELSE IF ~starts_with(h.text, Bearer)
    THEN [outcome |-> "Unauthorized", decoded |-> FALSE, extension |-> NoClaims]
    ELSE LET sl == SliceFromOffset(h)
         IN IF sl.panic
            THEN [outcome |-> "Panic", decoded |-> FALSE, extension |-> NoClaims]
            ELSE LET d == decode(sl.token, key, t)
                 IN IF d.ok
                    THEN [outcome |-> "Next", decoded |-> TRUE,
                          extension |-> d.claims]
                    ELSE [outcome |-> "Unauthorized", decoded |-> TRUE,
                          extension |-> NoClaims]

\* header texts other than "Bearer "
OtherTexts ==
    {Bearer, Bearer \o <<"X">>, Bearer \o <<"e'">>,
     <<"b", "e", "a", "r", "e", "r", " ">>, <<"B", "a", "s", "i", "c", " ">>,
     <<"B", "e", "a", "r">>}

\* token strings a client can put into a request: the ones it was given,
\* the same claims signed with a key of its own, and arbitrary text
Forged(t) == encode(t.claims, ForeignKey)
IssuedOf(kind) == {t \in issued : t.claims.token_type = kind}
HeaderTokens == issued \cup {Forged(t) : t \in IssuedOf("Access")}
                       \cup {EmptyToken, GarbageToken}
RefreshInputs == IssuedOf("Refresh") \cup {BlankToken, GarbageToken}
LogoutInputs == IssuedOf("Refresh") \cup {GarbageToken}

Headers ==
    {NoHeader, BinaryHeader}
        \cup {TextHeader(BearerSp, t) : t \in HeaderTokens}
        \cup {TextHeader(x, t) : x \in OtherTexts,
                                 t \in issued \cup {EmptyToken}}

\* auth_middleware that also purges the consumed rows of the session store
auth_middleware_purge ==
    \E h \in Headers :
        /\ response' = [op |-> "auth_middleware", header |-> h, at |-> now]
                          @@ AuthDecision(h, accessKey, now)
        /\ tokens' = {r \in tokens : ~r.used}
        /\ UNCHANGED <<config, users, nextUserId, nextTokenId, now,
                       nextJti, calls, history>>

auth_middleware ==
    \E h \in Headers :
        /\ response' = [op |-> "auth_middleware", header |-> h, at |-> now]
                          @@ AuthDecision(h, accessKey, now)
        /\ UNCHANGED <<config, users, nextUserId, tokens, nextTokenId, now,
                       nextJti, calls, history>>

\* the routes added to the Router before .layer(from_fn(auth_middleware)):
\* the layer wraps these and no route added after it
Gated == {"/text", "/conversations", "/conversations_ws"}

\* Extension<TokenClaims> of a handler: the extractor rejects the request
\* when the claims were not inserted into its extensions
MissingExtension ==
    [status |-> 500, error |-> "Missing request extension", handler |-> FALSE]

\* POST /refresh as the Router serves it: the route is added after the layer,
\* so the request reaches the extractors of refresh without the middleware
post_refresh ==
    \E h \in Headers, t \in RefreshInputs :
        /\ "/refresh" \notin Gated
        /\ response' = [op |-> "POST /refresh", header |-> h, presented |-> t,
                        at |-> now] @@ MissingExtension
        /\ UNCHANGED <<config, users, nextUserId, tokens, nextTokenId, now,
                       nextJti, calls, history>>

---------------------------------------------------------------------------
(* register *)

Upper == {"S", "P", "A"}
Lower == {"t", "r", "n", "g", "a", "s", "h", "e", "w", "k"}
Digit == {"0"}
Special == {"!", "#"}

Chars(pwd) == {pwd[i] : i \in 1..Len(pwd)}

validate_password_strength(pwd) ==
    /\ Chars(pwd) \cap Upper # {}
    /\ Chars(pwd) \cap Lower # {}
    /\ Chars(pwd) \cap Digit # {}
    /\ Chars(pwd) \cap Special # {}

\* the validator's email check, decided for the addresses of the model
WellFormedEmails == {"a@x.com", "b@x.com", "c@x.com"}

\* RegisterData::validate
validate(p) ==
    /\ Len(p.name) >= 3 /\ Len(p.name) <= 48
    /\ Len(p.password) >= 8 /\ Len(p.password) <= 128
    /\ validate_password_strength(p.password)
    /\ p.email \in WellFormedEmails /\ Len(p.email) <= 254

RegisterInputs ==
    clients \cup {[name |-> "al", password |-> WeakPass, email |-> "nobody"]}

\* the row with the lowest rowid among rows
FirstRow(rows) == CHOOSE r \in rows : \A q \in rows : r.id <= q.id

\* validation, the existence check and the password hash
register_check ==
    \E p \in RegisterInputs :
        /\ InFlight < workers
        /\ IF ~validate(p)
           THEN /\ response' = [op |-> "register", status |-> 400,
                                error |-> "Validation failed", field |-> "payload"]
                /\ UNCHANGED calls
           ELSE IF \E u \in users : u.name = p.name \/ u.email = p.email
           THEN /\ response' = [op |-> "register", status |-> 400,
                                error |-> "Validation failed", field |-> "user"]
                /\ UNCHANGED calls
           ELSE /\ Start([op |-> "register", pc |-> "insert", payload |-> p,
                          hashed_password |-> hash_encoded(p.password, salt)])
                /\ UNCHANGED response
        /\ UNCHANGED <<config, users, nextUserId, tokens, nextTokenId, now,
                       nextJti, history>>

\* an INSERT INTO users on a table whose email column is not UNIQUE
register_insert_nounique ==
    \E c \in BagToSet(calls) :
        /\ c.op = "register" /\ c.pc = "insert"
        /\ users' = users \cup
               {[id |-> nextUserId, email |-> c.payload.email,
                 name |-> c.payload.name, password |-> c.hashed_password]}
        /\ nextUserId' = nextUserId + 1
        /\ Step(c, [c EXCEPT !.pc = "fetch"] @@ [created |-> nextUserId])
        /\ UNCHANGED <<config, tokens, nextTokenId, now, nextJti, history,
                       response>>

\* add_user: INSERT INTO users; email is UNIQUE.  The SELECT * that add_user
\* runs first only prints its rows.
register_insert ==
    \E c \in BagToSet(calls) :
        /\ c.op = "register" /\ c.pc = "insert"
        /\ IF \E u \in users : u.email = c.payload.email
           THEN /\ Finish(c)
                /\ response' = [op |-> "register", status |-> 400,
                                error |-> "Database error", field |-> "database"]
                /\ UNCHANGED <<users, nextUserId>>
           ELSE /\ users' = users \cup
                       {[id |-> nextUserId, email |-> c.payload.email,
                         name |-> c.payload.name, password |-> c.hashed_password]}
                /\ nextUserId' = nextUserId + 1
                /\ Step(c, [c EXCEPT !.pc = "fetch"]
                               @@ [created |-> nextUserId])
                /\ UNCHANGED response
        /\ UNCHANGED <<config, tokens, nextTokenId, now, nextJti, history>>

\* add_user: SELECT * FROM users WHERE name = ? with fetch_one
register_fetch ==
    \E c \in BagToSet(calls) :
        /\ c.op = "register" /\ c.pc = "fetch"
        /\ LET named == {u \in users : u.name = c.payload.name}
           IN response' = [op |-> "register", status |-> 200,
                           user_id |-> FirstRow(named).id]
        /\ Finish(c)
        /\ UNCHANGED <<config, users, nextUserId, tokens, nextTokenId, now,
                       nextJti, history>>

---------------------------------------------------------------------------
(* login *)

LoginInputs ==
    {[email |-> e, password |-> w] :
        e \in {p.email : p \in clients} \cup {"c@x.com"},
        w \in {StrongPass, OtherPass}}

LoginHeaders ==
    {NoHeader, BinaryHeader, TextHeader(BearerSp, GarbageToken),
     TextHeader(<<"B", "a", "s", "i", "c", " ">>, GarbageToken)}

\* an INSERT that stores the row as already consumed
TokenRow_used(id, token_claims, token) ==
    [id |-> id, token |-> token, user_id |-> token_claims.user_id,
     email |-> token_claims.email, name |-> token_claims.name,
     exp |-> token_claims.exp, used |-> TRUE]

\* a row of table tokens as add_token inserts it
TokenRow(id, token_claims, token) ==
    [id |-> id, token |-> token, user_id |-> token_claims.user_id,
     email |-> token_claims.email, name |-> token_claims.name,
     exp |-> token_claims.exp, used |-> token_claims.used]

\* add_token fails when the UNIQUE column token already holds the value
add_token_ok(token) == \A r \in tokens : r.token # token

\* the Authorization check and SELECT * FROM users WHERE email = ?
login_select ==
    \E h \in LoginHeaders, p \in LoginInputs :
        /\ InFlight < workers
        /\ IF h.kind = "text"
           THEN /\ response' = [op |-> "login", status |-> 409,
                                error |-> "Authorization error",
                                message |-> IF starts_with(h.text, BearerSp)
                                            THEN "Already authorized"
                                            ELSE "Not bearer"]
                /\ UNCHANGED calls
           ELSE IF h.kind = "binary"
           THEN /\ response' = [op |-> "login", status |-> 400,
                                error |-> "Authorization error",
                                message |-> "Header not valid UTF-8"]
                /\ UNCHANGED calls
           ELSE IF ~\E u \in users : u.email = p.email
           THEN /\ response' = [op |-> "login", status |-> 500,
                                error |-> "Database query failed",
                                message |-> "RowNotFound",
                                payload |-> p, registered |-> FALSE]
                /\ UNCHANGED calls
           ELSE /\ Start([op |-> "login", pc |-> "issue", payload |-> p,
                          user |-> FirstRow({u \in users : u.email = p.email})])
                /\ UNCHANGED response
        /\ UNCHANGED <<config, users, nextUserId, tokens, nextTokenId, now,
                       nextJti, history>>

\* the password check, the two tokens and add_token
login_issue ==
    \E c \in BagToSet(calls), fail \in StoreFailures :
        /\ c.op = "login" /\ c.pc = "issue"
        /\ Finish(c)
        /\ IF ~verify_encoded(c.user.password, c.payload.password)
           THEN /\ response' = [op |-> "login", status |-> 400,
                                error |-> "Authentication failed",
                                message |-> "Wrong password or email",
                                payload |-> c.payload, registered |-> TRUE]
                /\ UNCHANGED <<tokens, nextTokenId, nextJti, history>>
           ELSE LET who == [name |-> c.user.name, email |-> c.user.email,
                            user_id |-> c.user.id]
                    claims == TokenClaims(who, "Access", now, nextJti)
                    access_token == encode(claims, accessKey)
                    claims_refresh == TokenClaims(who, "Refresh", now, nextJti + 1)
                    refresh_token == encode(claims_refresh, refreshKey)
                    hashed_refresh_token == hash_encoded(refresh_token, salt)
                IN /\ nextJti + 1 <= 2 * quota
                   /\ nextJti' = nextJti + 2
                   /\ IF add_token_ok(hashed_refresh_token) /\ ~fail
                      THEN /\ tokens' = tokens \cup
                                 {TokenRow(nextTokenId, claims_refresh,
                                           hashed_refresh_token)}
                           /\ nextTokenId' = nextTokenId + 1
                           /\ parentOf' = parentOf @@ (nextTokenId :> 0)
                           /\ issued' = issued \cup {access_token, refresh_token}
                           /\ response' = [op |-> "login", status |-> 200,
                                           access_token |-> access_token,
                                           refresh_token |-> refresh_token]
                           /\ UNCHANGED <<refreshed, loggedOut>>
                      ELSE /\ response' = [op |-> "login", status |-> 500,
                                           error |-> "Database error",
                                           message |-> "Failed to add token"]
                           /\ UNCHANGED <<tokens, nextTokenId, history>>
        /\ UNCHANGED <<config, users, nextUserId, now>>

---------------------------------------------------------------------------
(* refresh *)

\* the caller identities the Extension<TokenClaims> of a request can carry:
\* the claims of the access tokens handed out so far
CallerIdentities ==
    {[name |-> t.claims.name, email |-> t.claims.email,
      user_id |-> t.claims.user_id] :
        t \in {i \in issued : i.claims.token_type = "Access"}}

\* SELECT * FROM tokens WHERE user_id = ?
UnusedRowsOf_all(user_id) == {r \in tokens : r.user_id = user_id}

\* SELECT * FROM tokens WHERE user_id = ? AND used = FALSE
UnusedRowsOf(user_id) == {r \in tokens : r.user_id = user_id /\ ~r.used}

\* a scan that takes every fetched row for a match
Matching_all(rows, refresh_token) == rows

\* a verification that compares the salt of the stored hash only
Matching_salt(rows, refresh_token) == {r \in rows : r.token[2] = salt}

\* the rows whose stored hash verifies against the presented token
Matching(rows, refresh_token) ==
    {r \in rows : verify_encoded(r.token, refresh_token)}

\* the first row that verifies, in the order the rows were fetched
find_matching_token(rows, refresh_token) ==
    LET m == Matching(rows, refresh_token)
    IN IF m = {} THEN [ok |-> FALSE] ELSE [ok |-> TRUE, token |-> FirstRow(m)]

\* generate_new_tokens that signs both tokens with the access secret
generate_new_tokens_onekey(user_data, t, id) ==
    LET new_access_claims == TokenClaims(user_data, "Access", t, id)
        new_refresh_claims == TokenClaims(user_data, "Refresh", t, id + 1)
    IN [new_access_token |-> encode(new_access_claims, accessKey),
        new_refresh_token |-> encode(new_refresh_claims, accessKey),
        new_refresh_claims |-> new_refresh_claims]

generate_new_tokens(user_data, t, id) ==
    LET new_access_claims == TokenClaims(user_data, "Access", t, id)
        new_refresh_claims == TokenClaims(user_data, "Refresh", t, id + 1)
    IN [new_access_token |-> encode(new_access_claims, accessKey),
        new_refresh_token |-> encode(new_refresh_claims, refreshKey),
        new_refresh_claims |-> new_refresh_claims]

InvalidInput(t) ==
    [op |-> "refresh", status |-> 400, error |-> "Invalid refresh token",
     message |-> "Refresh token cannot be empty", presented |-> t]

InvalidOrExpiredToken(t) ==
    [op |-> "refresh", status |-> 400, error |-> "Invalid refresh token",
     message |-> "The provided refresh token is invalid or expired",
     presented |-> t]

\* the ValidationError of a failed statement; into_response answers every
\* ValidationError with StatusCode::BAD_REQUEST
DatabaseError(op, msg, t) ==
    [op |-> op, status |-> 400, error |-> "Database error", message |-> msg,
     presented |-> t]

\* the input check, the SELECT of the caller's unused rows, the scan for the
\* matching row and the generation of the new pair
refresh_select ==
    \E user_data \in CallerIdentities, t \in RefreshInputs,
       fail \in StoreFailures :
        /\ InFlight < workers
        /\ LET started == [afterRefresh |-> CopiesIn(t, refreshed) > 0,
                           afterLogout |-> t \in loggedOut]
               about == [started |-> started, caller |-> user_data.user_id]
               found == find_matching_token(UnusedRowsOf(user_data.user_id), t)
           IN IF trim_is_empty(t)
              THEN /\ response' = InvalidInput(t) @@ about
                   /\ UNCHANGED <<calls, nextJti>>
              ELSE IF fail
              THEN /\ response' = DatabaseError("refresh",
                                       "Failed to fetch user tokens", t) @@ about
                   /\ UNCHANGED <<calls, nextJti>>
              ELSE IF ~found.ok
              THEN /\ response' = InvalidOrExpiredToken(t) @@ about
                   /\ UNCHANGED <<calls, nextJti>>
              ELSE /\ nextJti + 1 <= 2 * quota
                   /\ nextJti' = nextJti + 2
                   /\ Start([op |-> "refresh", pc |-> "mark", presented |-> t,
                             user_data |-> user_data, started |-> started,
                             matched_token |-> found.token]
                            @@ generate_new_tokens(user_data, now, nextJti))
                   /\ UNCHANGED response
        /\ UNCHANGED <<config, users, nextUserId, tokens, nextTokenId, now,
                       history>>

\* an UPDATE that also moves exp of the matched row to the time of the call
MarkUsed_touch(rows, token) ==
    {IF r.token = token THEN [r EXCEPT !.used = TRUE, !.exp = now] ELSE r :
        r \in rows}

\* UPDATE tokens SET used = TRUE without the WHERE clause
MarkUsed_all(rows, token) == {[r EXCEPT !.used = TRUE] : r \in rows}

\* an UPDATE that matches no row
MarkUsed_noop(rows, token) == rows

\* update_tokens_in_database: UPDATE tokens SET used = TRUE WHERE token = ?

MarkUsed(rows, token) ==
    {IF r.token = token THEN [r EXCEPT !.used = TRUE] ELSE r : r \in rows}

\* the number of rows the WHERE clause token = ? selects: the rows_affected
\* of the statement's result, which the handlers do not look at
RowsAffected(rows, token) == Cardinality({r \in rows : r.token = token})

\* what the responses of a refresh call say about the call
About(c) == [started |-> c.started, caller |-> c.user_data.user_id]

refresh_mark_used ==
    \E c \in BagToSet(calls), fail \in StoreFailures :
        /\ c.op = "refresh" /\ c.pc = "mark"
        /\ IF fail
           THEN /\ Finish(c)
                /\ response' = DatabaseError("refresh",
                                    "Failed to invalidate old token",
                                    c.presented) @@ About(c)
                /\ UNCHANGED tokens
           ELSE /\ tokens' = MarkUsed(tokens, c.matched_token.token)
                /\ Step(c, [c EXCEPT !.pc = "insert"]
                               @@ [rows_affected |->
                                      RowsAffected(tokens, c.matched_token.token)])
                /\ UNCHANGED response
        /\ UNCHANGED <<config, users, nextUserId, nextTokenId, now, nextJti,
                       history>>

\* update_tokens_in_database: the hash of the new refresh token and add_token,
\* then the response of refresh
refresh_add_token ==
    \E c \in BagToSet(calls), fail \in StoreFailures :
        /\ c.op = "refresh" /\ c.pc = "insert"
        /\ Finish(c)
        /\ LET hashed_refresh_token == hash_encoded(c.new_refresh_token, salt)
           IN IF add_token_ok(hashed_refresh_token) /\ ~fail
              THEN /\ tokens' = tokens \cup
                         {TokenRow(nextTokenId, c.new_refresh_claims,
                                   hashed_refresh_token)}
                   /\ nextTokenId' = nextTokenId + 1
                   /\ parentOf' = parentOf @@ (nextTokenId :> c.matched_token.id)
                   /\ issued' = issued \cup {c.new_access_token, c.new_refresh_token}
                   /\ refreshed' = refreshed (+) SetToBag({c.presented})
                   /\ response' = [op |-> "refresh", status |-> 200,
                                   presented |-> c.presented,
                                   new_access_token |-> c.new_access_token,
                                   new_refresh_token |-> c.new_refresh_token]
                                      @@ About(c)
                   /\ UNCHANGED loggedOut
              ELSE /\ response' = DatabaseError("refresh",
                                       "Failed to store new refresh token",
                                       c.presented) @@ About(c)
                   /\ UNCHANGED <<tokens, nextTokenId, history>>
        /\ UNCHANGED <<config, users, nextUserId, now, nextJti>>

---------------------------------------------------------------------------
(* logout *)

\* DELETE FROM tokens WHERE token = ?
DeleteByHash_none(rows, hashed) == rows

\* a DELETE that removes every row of the user who owns the hash
DeleteByHash_user(rows, hashed) ==
    {r \in rows : \A q \in rows : q.token = hashed => q.user_id # r.user_id}

DeleteByHash(rows, hashed) == {r \in rows : r.token # hashed}

\* a logout that deletes the oldest row when no row holds the hash
logout_pop ==
    \E t \in LogoutInputs :
        /\ tokens' = IF DeleteByHash(tokens, hash_encoded(t, salt)) = tokens
                         /\ tokens # {}
                      THEN tokens \ {FirstRow(tokens)}
                      ELSE DeleteByHash(tokens, hash_encoded(t, salt))
        /\ loggedOut' = loggedOut \cup ({t} \cap issued)
        /\ response' = [op |-> "logout", status |-> 200, presented |-> t]
        /\ UNCHANGED <<config, users, nextUserId, nextTokenId, now, nextJti,
                       calls, issued, parentOf, refreshed>>

\* the hash of the presented token with the process salt, then the DELETE
logout ==
    \E t \in LogoutInputs, fail \in StoreFailures :
        /\ IF fail
           THEN /\ response' = DatabaseError("logout",
                                    "Failed to delete refresh token", t)
                /\ UNCHANGED <<tokens, loggedOut>>
           ELSE /\ tokens' = DeleteByHash(tokens, hash_encoded(t, salt))
                /\ loggedOut' = loggedOut \cup ({t} \cap issued)
                /\ response' = [op |-> "logout", status |-> 200, presented |-> t]
        /\ UNCHANGED <<config, users, nextUserId, nextTokenId, now, nextJti,
                       calls, issued, parentOf, refreshed>>

Tick ==
    /\ now < MaxTime
    /\ now' = now + 1
    /\ UNCHANGED <<config, users, nextUserId, tokens, nextTokenId, nextJti,
                   calls, response, history>>

\* the clock of Utc::now() moves past the lifetime of every refresh token
\* handed out so far
Lapse ==
    /\ now < MaxTime
    /\ now' = now + RefreshTTL + 1
    /\ UNCHANGED <<config, users, nextUserId, tokens, nextTokenId, nextJti,
                   calls, response, history>>

Next ==
    \/ register_check
    \/ register_insert
    \/ register_fetch
    \/ login_select
    \/ login_issue
    \/ refresh_select
    \/ refresh_mark_used
    \/ refresh_add_token
    \/ logout

\* concurrent requests against the session store
Spec == Init /\ [][Next]_vars

NextGate ==
    \/ register_check
    \/ register_insert
    \/ register_fetch
    \/ login_select
    \/ login_issue
    \/ refresh_select
    \/ refresh_mark_used
    \/ refresh_add_token
    \/ logout
    \/ auth_middleware

\* requests served one at a time and the gate
SpecGate == InitGate /\ [][NextGate]_vars

NextClock ==
    \/ register_check
    \/ register_insert
    \/ register_fetch
    \/ login_select
    \/ login_issue
    \/ logout
    \/ auth_middleware
    \/ Tick

\* a login, the gate and the clock
SpecClock == InitClock /\ [][NextClock]_vars

\* two registrants, requests served one at a time
SpecUsers == InitUsers /\ [][Next]_vars

\* requests served one at a time by a session store that may fail
SpecFault == InitFault /\ [][Next]_vars

\* requests reach the handlers once axum::serve runs
Listening == phase = "listening"

NextBoot ==
    \/ main
    \/ Listening /\ register_check
    \/ Listening /\ register_insert
    \/ Listening /\ register_fetch
    \/ Listening /\ login_select
    \/ Listening /\ login_issue
    \/ Listening /\ refresh_select
    \/ Listening /\ refresh_mark_used
    \/ Listening /\ refresh_add_token
    \/ Listening /\ logout

\* the process from its start, with any of the three secrets set or not
SpecBoot == InitBoot /\ [][NextBoot]_vars

InitExpiry == Boot(1, Keys \ {"k1"}, MaxIssues)

NextExpiry ==
    \/ register_check
    \/ register_insert
    \/ register_fetch
    \/ login_select
    \/ login_issue
    \/ refresh_select
    \/ refresh_mark_used
    \/ refresh_add_token
    \/ logout
    \/ Lapse

\* requests served one at a time while more than seven days pass
SpecExpiry == InitExpiry /\ [][NextExpiry]_vars

InitRoute == Boot(1, Keys, 2)

NextRoute ==
    \/ register_check
    \/ register_insert
    \/ register_fetch
    \/ login_select
    \/ login_issue
    \/ logout
    \/ post_refresh

\* requests as the Router dispatches them, served one at a time
SpecRoute == InitRoute /\ [][NextRoute]_vars

InitRegister == Serve(MaxCalls, Keys \ {"k1"}, 1, {Alice, Bob, Carol, Dave}, FALSE)

NextRegister ==
    \/ register_check
    \/ register_insert
    \/ register_fetch

\* concurrent registrations with names and emails in common
SpecRegister == InitRegister /\ [][NextRegister]_vars
---------------------------------------------------------------------------
(* Refresh rotation and logout *)

RefreshCalls == {c \in BagToSet(calls) : c.op = "refresh"}

IsInvalidOrExpired(r) ==
    /\ r.op = "refresh"
    /\ r.status = 400
    /\ r.error = "Invalid refresh token"
    /\ r.message = "The provided refresh token is invalid or expired"

\* C1: a refresh that presents a token for which an earlier refresh has
\* already completed successfully gets past no matching row: it generates no
\* tokens and its response is the error "Invalid refresh token" / "invalid or
\* expired".
C1_SingleUse ==
    /\ \A c \in RefreshCalls : ~c.started.afterRefresh
    /\ (response.op = "refresh" /\ response.started.afterRefresh)
          => IsInvalidOrExpired(response)

\* a refresh of an already rotated token has been answered
C1_Witness ==
    /\ response.op = "refresh"
    /\ response.started.afterRefresh
    /\ response.presented \in IssuedOf("Refresh")
    /\ CopiesIn(response.presented, refreshed) = 1
    /\ IsInvalidOrExpired(response)

\* C2: of the refresh calls that present the same token, at most one returns a
\* new token pair.
C2_AtMostOneSuccess ==
    \A t \in BagToSet(refreshed) : CopiesIn(t, refreshed) <= 1

\* the row a login created, reached from row id through the rows it rotated
RECURSIVE Root(_)
Root(id) == IF parentOf[id] = 0 THEN id ELSE Root(parentOf[id])

Successors(id) == {i \in DOMAIN parentOf : parentOf[i] = id}

\* C3: every refresh chain holds at most one row with used = FALSE, and no
\* row has two successor rows.
C3_OneUnusedPerChain ==
    /\ \A r \in tokens :
          Cardinality({q \in tokens : ~q.used /\ Root(q.id) = Root(r.id)}) <= 1
    /\ \A id \in DOMAIN parentOf : Cardinality(Successors(id)) <= 1

\* C4: a refresh that presents a stored token whose logout has completed gets
\* past no matching row: it generates no tokens and its response is the error
\* "Invalid refresh token" / "invalid or expired".
C4_LogoutRevokes ==
    /\ \A c \in RefreshCalls : ~c.started.afterLogout
    /\ (response.op = "refresh" /\ response.started.afterLogout)
          => IsInvalidOrExpired(response)

\* a refresh of a logged-out token that was never rotated has been answered
C4_Witness ==
    /\ response.op = "refresh"
    /\ response.started.afterLogout
    /\ ~response.started.afterRefresh
    /\ response.presented \in IssuedOf("Refresh")
    /\ IsInvalidOrExpired(response)
---------------------------------------------------------------------------
(* The gate *)

GateAnswered == response.op = "auth_middleware"

\* the gate has answered a request whose header is "Bearer " followed by tok
BearerOf(tok) == GateAnswered /\ response.header = TextHeader(BearerSp, tok)

\* C5: when the two secrets differ, no request whose header carries a refresh
\* token issued by login or refresh passes the gate or gets claims attached;
\* presented as "Bearer <token>" it is answered Unauthorized.
C5_RefreshNeverPasses ==
    (/\ GateAnswered
     /\ accessKey # refreshKey
     /\ response.header.kind = "text"
     /\ response.header.tok \in IssuedOf("Refresh"))
        => /\ response.outcome # "Next"
           /\ response.extension = NoClaims
           /\ response.header.text = BearerSp => response.outcome = "Unauthorized"

\* the gate has turned away a refresh token that a rotation issued
C5_Witness ==
    /\ accessKey # refreshKey
    /\ \E t \in IssuedOf("Refresh") :
          /\ BearerOf(t)
          /\ CopiesIn(t, refreshed) = 0
          /\ \E r \in tokens : r.token = hash_encoded(t, salt) /\ parentOf[r.id] # 0
    /\ response.decoded
    /\ response.outcome = "Unauthorized"

C7_ExpiredRejected ==
    (/\ GateAnswered
     /\ response.header.kind = "text"
     /\ response.header.text = BearerSp
     /\ response.header.tok.kind = "jwt"
     /\ response.header.tok.claims.exp < response.at)
        => response.outcome = "Unauthorized"

\* C8: a request whose header is absent, not UTF-8, or does not start with
\* the seven characters "Bearer " is answered Unauthorized without decode
\* having been called.
C8_HeaderGate ==
    (/\ GateAnswered
     /\ \/ response.header.kind # "text"
        \/ ~starts_with(response.header.text, BearerSp))
        => response.outcome = "Unauthorized" /\ ~response.decoded

\* C9: every request either is answered Unauthorized with no claims attached,
\* or carries a token that verifies against the access key, whose claims are
\* attached, and runs the downstream handler.
C9_GateTotality ==
    GateAnswered =>
        \/ response.outcome = "Unauthorized" /\ response.extension = NoClaims
        \/ /\ response.outcome = "Next"
           /\ response.header.kind = "text"
           /\ decode(response.header.tok, accessKey, response.at).ok
           /\ response.extension = response.header.tok.claims

\* the refresh token issued together with access token t
Partner(t) == {r \in IssuedOf("Refresh") : r.claims.jti = t.claims.jti + 1}

\* an access token that has not expired is accepted with its claims
C10_UnexpiredAccepted ==
    \A t \in IssuedOf("Access") :
        (BearerOf(t) /\ t.claims.exp >= response.at)
            => response.outcome = "Next" /\ response.extension = t.claims

\* C10: the gate leaves the tables users and tokens as they are, and an
\* access token that has not expired is accepted whatever the session store
\* holds, also after the refresh token of its session was rotated or deleted.
C10_Stateless ==
    /\ []C10_UnexpiredAccepted
    /\ [][auth_middleware =>
            UNCHANGED <<users, nextUserId, tokens, nextTokenId>>]_vars

\* an access token is accepted although the refresh token of its session has
\* been rotated or logged out and no unused row is left for it
C10_Witness ==
    \E t \in IssuedOf("Access") :
        /\ BearerOf(t)
        /\ response.outcome = "Next"
        /\ \E p \in Partner(t) :
              /\ p \in loggedOut \/ CopiesIn(p, refreshed) > 0
              /\ \A r \in tokens : r.token = hash_encoded(p, salt) => r.used
---------------------------------------------------------------------------
(* Login *)

\* a login turned down for its credentials
IsCredentialFailure(r) ==
    r.op = "login" /\ r.status # 200 /\ "registered" \in DOMAIN r

\* what the client sees of a response: the status code and the error payload
Visible(r) == [status |-> r.status, error |-> r.error, message |-> r.message]

\* C11: a login turned down for an unregistered email and a login turned down
\* for a registered email with a wrong password, both submitting the same
\* password, give the client the same status code and the same error payload.
C11_NoEmailOracle ==
    [][(/\ IsCredentialFailure(response)
        /\ IsCredentialFailure(response')
        /\ response.payload.password = response'.payload.password
        /\ response.registered # response'.registered)
          => Visible(response) = Visible(response')]_vars

\* the login call c completes in this step
LoginCompletes(c) ==
    /\ c.op = "login"
    /\ calls' = calls (-) SetToBag({c})
    /\ response'.op = "login"

\* C12: a login with a registered email and the matching password succeeds;
\* its access token has token_type Access, used FALSE and exp five minutes
\* from now, its refresh token has token_type Refresh, used FALSE and exp
\* seven days from now, both carry the id, name and email of the user row, and
\* the step adds exactly one row to table tokens: unused, owned by the user,
\* with the exp of the refresh claims and the hash of the returned refresh
\* token.
C12_LoginIssues ==
    [][\A c \in BagToSet(calls) :
          (LoginCompletes(c) /\ verify_encoded(c.user.password, c.payload.password))
            => /\ response'.status = 200
               /\ LET a == response'.access_token.claims
                      r == response'.refresh_token.claims
                  IN /\ a.token_type = "Access" /\ ~a.used
                     /\ a.exp = now + AccessTTL
                     /\ r.token_type = "Refresh" /\ ~r.used
                     /\ r.exp = now + RefreshTTL
                     /\ \A k \in {a, r} :
                           /\ k.user_id = c.user.id
                           /\ k.name = c.user.name
                           /\ k.email = c.user.email
                     /\ \E row \in tokens' :
                           /\ row \notin tokens
                           /\ tokens' = tokens \cup {row}
                           /\ row.token = hash_encoded(response'.refresh_token, salt)
                           /\ ~row.used
                           /\ row.user_id = c.user.id
                           /\ row.exp = r.exp]_vars

\* a login has succeeded some minutes after the server started and its row is
\* in the store
C12_Witness ==
    /\ response.op = "login"
    /\ response.status = 200
    /\ response.access_token.claims.exp > AccessTTL
    /\ response.refresh_token.claims.exp > RefreshTTL
    /\ \E row \in tokens :
          /\ row.token = hash_encoded(response.refresh_token, salt)
          /\ row.exp = response.refresh_token.claims.exp
          /\ ~row.used
---------------------------------------------------------------------------
(* The session store *)

\* the refresh calls that get past the rotation lookup in this step
LookupsReturned ==
    {c \in BagToSet(calls') :
        c.op = "refresh" /\ c.pc = "mark"
                         /\ CopiesIn(c, calls') > CopiesIn(c, calls)}

\* C13: a row with used = TRUE keeps used = TRUE in every step for as long as
\* it is stored, and no rotation lookup returns it as the matching row.
C13_ConsumedTerminal ==
    [][/\ \A r \in tokens :
             r.used => \A q \in tokens' : q.id = r.id => q.used
       /\ \A c \in LookupsReturned :
             \A r \in tokens : r.id = c.matched_token.id => ~r.used]_vars

\* the token of a consumed row that is still stored was presented again and
\* the lookup did not return the row
C13_Witness ==
    /\ response.op = "refresh"
    /\ IsInvalidOrExpired(response)
    /\ \E r \in tokens :
          /\ r.used
          /\ r.user_id = response.caller
          /\ verify_encoded(r.token, response.presented)
          /\ Successors(r.id) # {}

\* the response to a refresh is the InvalidInput error
IsInvalidInput(r) ==
    /\ r.op = "refresh"
    /\ r.status = 400
    /\ r.error = "Invalid refresh token"
    /\ r.message = "Refresh token cannot be empty"

\* token strings that are empty after trimming whitespace
Blanks == {EmptyToken, BlankToken}

\* the refresh token of the refresh request answered by r is blank
BlankPresented(r) == r.op = "refresh" /\ r.presented \in Blanks

\* a blank refresh token is always answered with InvalidInput, also when the
\* statements on table tokens fail: the SELECT is never reached
C14_BlankAnswer == BlankPresented(response) => IsInvalidInput(response)

\* C14: a refresh whose refresh_token is empty after trimming is answered with
\* the InvalidInput error 'Refresh token cannot be empty' whatever the session
\* store would answer, no call goes on to the store, and the step that answers
\* it leaves table tokens as it was.
C14_EmptyRejected ==
    /\ []C14_BlankAnswer
    /\ [](\A c \in RefreshCalls : c.presented \notin Blanks)
    /\ [][(BlankPresented(response') /\ response' # response)
             => UNCHANGED <<tokens, nextTokenId, issued>>]_vars

\* a blank refresh token was rejected while the store held an unused row of
\* the caller
C14_Witness ==
    /\ faulty
    /\ BlankPresented(response)
    /\ response.presented = BlankToken
    /\ IsInvalidInput(response)
    /\ UnusedRowsOf(response.caller) # {}

\* the rows that hold the hash of token string t
RowsOf(t) == {r \in tokens : r.token = hash_encoded(t, salt)}

\* token string t is not a blank and, for caller uid, it was never stored,
\* or its row is consumed, or its row is owned by another user
Unusable(t, uid) ==
    /\ t \notin Blanks
    /\ \/ RowsOf(t) = {}
       \/ \E r \in RowsOf(t) : r.used
       \/ \E r \in RowsOf(t) : r.user_id # uid

\* a refresh is answered in this step by the lookup itself
AnsweredAtLookup ==
    /\ response'.op = "refresh"
    /\ response' # response
    /\ calls' = calls

\* C15: a refresh presenting a token that was never stored, whose row is
\* already consumed, or whose row is owned by a user other than the caller
\* never gets past the lookup; it is answered with the error "Invalid refresh
\* token" / "invalid or expired", and the step hands out no tokens and leaves
\* table tokens as it was.
C15_OnlyOwnUnusedRows ==
    [][/\ \A c \in LookupsReturned :
             ~Unusable(c.presented, c.user_data.user_id)
       /\ (AnsweredAtLookup /\ Unusable(response'.presented, response'.caller))
             => /\ IsInvalidOrExpired(response')
                /\ UNCHANGED <<tokens, nextTokenId, issued, nextJti>>]_vars

\* a refresh presented the token of an unused row of another user and was
\* turned down
C15_Witness ==
    /\ response.op = "refresh"
    /\ IsInvalidOrExpired(response)
    /\ \E r \in RowsOf(response.presented) :
          /\ ~r.used
          /\ r.user_id # response.caller
          /\ UnusedRowsOf(response.caller) # {}
---------------------------------------------------------------------------
(* Logout *)

\* the last response is the success of a logout
LogoutDone(r) == r.op = "logout" /\ r.status = 200

\* C16: with a working store every logout is answered with success, whether
\* or not a row holds the hash of the presented token, and a logout of the
\* token whose logout was answered last leaves table tokens as the first
\* logout left it.
C16_LogoutIdempotent ==
    [][logout =>
          /\ LogoutDone(response')
          /\ (LogoutDone(response) /\ response'.presented = response.presented)
                => tokens' = tokens]_vars

\* a logout of a token no row holds has succeeded after the logout of a
\* stored token, with other rows still in the store
C16_Witness ==
    /\ LogoutDone(response)
    /\ RowsOf(response.presented) = {}
    /\ response.presented \notin issued
    /\ loggedOut # {}
    /\ tokens # {}
---------------------------------------------------------------------------
(* Several sessions of one user *)

\* the step runs the UPDATE of a rotation that matched the hash of row r, or
\* answers a logout that presented the token row r holds
Touches(r) ==
    \/ \E c \in RefreshCalls :
          /\ c.pc = "mark"
          /\ c.matched_token.token = r.token
          /\ CopiesIn(c, calls') < CopiesIn(c, calls)
    \/ /\ response'.op = "logout"
       /\ hash_encoded(response'.presented, salt) = r.token

\* an unused row of a token that was handed out is what the lookup of its
\* owner returns for that token
C17_Refreshable ==
    \A t \in IssuedOf("Refresh") :
        \A r \in RowsOf(t) :
            ~r.used => find_matching_token(UnusedRowsOf(r.user_id), t)
                          = [ok |-> TRUE, token |-> r]

\* C17: a successful login adds one row to table tokens and leaves every row
\* already stored as it was; a rotation or a logout changes or removes only
\* rows that hold the hash of the token it was given, so the row of another
\* session of the same user stays unused, and an unused row is still found by
\* a refresh of its token.
C17_IndependentSessions ==
    /\ []C17_Refreshable
    /\ [][/\ \A c \in BagToSet(calls) :
                (LoginCompletes(c) /\ response'.status = 200)
                   => /\ tokens \subseteq tokens'
                      /\ Cardinality(tokens' \ tokens) = 1
          /\ \A r \in tokens : r \in tokens' \/ Touches(r)]_vars

\* one user holds the rows of two logins; the token of one has been rotated,
\* the row of the other is unused and its refresh would find it
C17_Witness ==
    \E r1 \in tokens, r2 \in tokens :
        /\ r1.id # r2.id
        /\ r1.user_id = r2.user_id
        /\ parentOf[r1.id] = 0 /\ parentOf[r2.id] = 0
        /\ r1.used /\ Successors(r1.id) # {}
        /\ ~r2.used
        /\ \E t \in IssuedOf("Refresh") :
              /\ r2 \in RowsOf(t)
              /\ find_matching_token(UnusedRowsOf(r2.user_id), t).ok
---------------------------------------------------------------------------
(* Failures of the session store *)

\* the refresh call c is answered with an error in this step
RefreshFails(c) ==
    /\ c.op = "refresh"
    /\ calls' = calls (-) SetToBag({c})
    /\ response'.op = "refresh"
    /\ response'.status # 200

\* C18: when a refresh is answered with an error, table tokens is as it was
\* before the call: an error at the lookup leaves the table unchanged, and an
\* error after the lookup leaves the matched row stored with used = FALSE and
\* no row for the new refresh token.
C18_NoPartialRotation ==
    [][/\ (AnsweredAtLookup /\ response'.status # 200) => UNCHANGED tokens
       /\ \A c \in BagToSet(calls) :
             RefreshFails(c)
                => /\ c.matched_token \in tokens'
                   /\ \A r \in tokens' :
                         r.token # hash_encoded(c.new_refresh_token, salt)]_vars

\* a register, login or refresh request was turned down for its input or its
\* credentials, not for a failed statement on the session store
IsRejection(r) ==
    /\ r.op \in {"register", "login", "refresh"}
    /\ r.status # 200
    /\ r.error # "Database error"

\* C19: every register, login or refresh request that is turned down for its
\* input or its credentials is answered with a status between 400 and 499.
C19_ClientErrors == IsRejection(response) => response.status \in 400..499

\* the last response reports a failed statement on table tokens
StoreFailed(r) ==
    /\ r.op \in {"refresh", "logout"}
    /\ r.status # 200
    /\ r.error = "Database error"

\* C20: a refresh or logout during which a statement on table tokens failed is
\* answered with a status between 500 and 599.
C20_StoreFailureIsServerError ==
    StoreFailed(response) => response.status \in 500..599
---------------------------------------------------------------------------
(* Rows of table tokens *)

\* row q is row r with at most the flag used raised
SameButUsed(r, q) ==
    /\ q.id = r.id
    /\ q.token = r.token
    /\ q.user_id = r.user_id
    /\ q.name = r.name
    /\ q.email = r.email
    /\ q.exp = r.exp
    /\ r.used => q.used

\* the step answers a logout that presented the token row r holds
DeletedByLogout(r) ==
    /\ response'.op = "logout"
    /\ response'.status = 200
    /\ hash_encoded(response'.presented, salt) = r.token

\* C21: in every step a stored row either stays in the table with the same
\* id, hash, user_id, name, email and exp, its flag used going at most from
\* FALSE to TRUE, or it is deleted by a logout of the token it holds.
C21_RowsImmutable ==
    [][\A r \in tokens :
          \/ /\ Cardinality({q \in tokens' : q.id = r.id}) = 1
             /\ \A q \in tokens' : q.id = r.id => SameButUsed(r, q)
          \/ /\ \A q \in tokens' : q.id # r.id
             /\ DeletedByLogout(r)]_vars

\* a row has been consumed and is still stored with the fields it was created
\* with, and a row of another session has been deleted by a logout
C21_Witness ==
    /\ loggedOut # {}
    /\ \A t \in loggedOut : RowsOf(t) = {}
    /\ \E r \in tokens :
          /\ r.used
          /\ \E t \in IssuedOf("Refresh") :
                r = [TokenRow(r.id, t.claims, hash_encoded(t, salt))
                        EXCEPT !.used = TRUE]
---------------------------------------------------------------------------
(* Startup *)

\* one of SALT, SECRET_KEY_ACCESS, SECRET_KEY_REFRESH is not set
SecretMissing == Absent \in {salt, accessKey, refreshKey}

\* a request has been taken up or answered
Handled == calls # EmptyBag \/ response # NoResponse \/ users # {}

\* C22: when one of the three secrets is not set the process never listens
\* and no request is taken up or answered; it aborts in main.
C22_SecretsOrAbort ==
    SecretMissing => /\ phase \in {"starting", "aborted"}
                     /\ ~Handled

\* the process was started with the salt set and a signing key not set, and
\* has aborted in main
C22_Witness ==
    /\ salt # Absent
    /\ refreshKey = Absent
    /\ phase = "aborted"
    /\ ~Handled
---------------------------------------------------------------------------
(* Rotation *)

\* the refresh call c is answered with a new token pair in this step
RefreshSucceeds(c) ==
    /\ c.op = "refresh"
    /\ calls' = calls (-) SetToBag({c})
    /\ response'.op = "refresh"
    /\ response'.status = 200

\* the UPDATE of refresh call c runs in this step
RefreshMarks(c) ==
    /\ c.op = "refresh" /\ c.pc = "mark"
    /\ \E d \in BagToSet(calls') :
          /\ d.pc = "insert"
          /\ calls' = (calls (-) SetToBag({c})) (+) SetToBag({d})

\* C23: when a refresh is answered with a new token pair, its UPDATE has set
\* used = TRUE on one row, the row it matched, and left every other row as it
\* was; the answering step adds exactly one row, which is unused, owned by
\* the caller and holds the hash of the new refresh token; both new tokens
\* carry the caller's user_id, name and email and expire 5 minutes and 7 days
\* from the call.
C23_RefreshEffect ==
    [][\A c \in BagToSet(calls) :
        /\ RefreshMarks(c)
             => \A r \in tokens :
                   IF r.token = c.matched_token.token
                   THEN [r EXCEPT !.used = TRUE] \in tokens'
                   ELSE r \in tokens'
        /\ RefreshSucceeds(c)
             => /\ c.rows_affected = 1
                /\ \E row \in tokens' :
                      /\ row \notin tokens
                      /\ tokens' = tokens \cup {row}
                      /\ ~row.used
                      /\ row.user_id = c.user_data.user_id
                      /\ row.token = hash_encoded(response'.new_refresh_token, salt)
                /\ LET a == response'.new_access_token.claims
                       r == response'.new_refresh_token.claims
                   IN /\ a.token_type = "Access" /\ a.exp = now + AccessTTL
                      /\ r.token_type = "Refresh" /\ r.exp = now + RefreshTTL
                      /\ \A k \in {a, r} :
                            /\ k.user_id = c.user_data.user_id
                            /\ k.name = c.user_data.name
                            /\ k.email = c.user_data.email]_vars

\* the refresh call c, whose UPDATE found the matched row gone, is answered
\* in this step
AnsweredAfterDelete(c) ==
    /\ c.op = "refresh" /\ c.pc = "insert"
    /\ c.rows_affected = 0
    /\ calls' = calls (-) SetToBag({c})
    /\ response'.op = "refresh"

\* C25: a refresh whose matched row was deleted by a logout after the lookup
\* and before the UPDATE is answered with an error and adds no row, so the
\* session is left without an unused row.
C25_LogoutWinsRace ==
    [][\A c \in BagToSet(calls) :
          AnsweredAfterDelete(c)
             => /\ response'.status # 200
                /\ tokens' = tokens
                /\ \A r \in tokens' :
                      r.token # hash_encoded(c.new_refresh_token, salt)]_vars

\* the refresh token a successful login or refresh hands to the client
ReturnedToken(resp) ==
    IF resp.op = "login" THEN resp.refresh_token ELSE resp.new_refresh_token

\* the unused rows whose hash verifies against token t
UnusedRowsFor(rows, t) ==
    {r \in rows : ~r.used /\ r.token = hash_encoded(t, salt)}

\* refresh tokens handed out that no logout and no refresh, finished or in
\* flight, has been given since
Untouched ==
    {t \in IssuedOf("Refresh") :
        /\ t \notin loggedOut
        /\ CopiesIn(t, refreshed) = 0
        /\ \A c \in BagToSet(calls) : c.op = "refresh" => c.presented # t}

\* C24: at the step that returns a refresh token (login or refresh answered
\* 200) exactly one unused row holds its hash, and as long as no logout or
\* refresh has been given that token the lookup of a refresh by its owner
\* finds that row.
C24_ChainContinuity ==
    /\ [](\A t \in Untouched :
             /\ Cardinality(UnusedRowsFor(tokens, t)) = 1
             /\ find_matching_token(UnusedRowsOf(t.claims.user_id), t).ok
             /\ find_matching_token(UnusedRowsOf(t.claims.user_id), t).token
                   \in UnusedRowsFor(tokens, t))
    /\ [][(login_issue \/ refresh_add_token) /\ response'.status = 200
             => Cardinality(UnusedRowsFor(tokens', ReturnedToken(response'))) = 1]_vars

\* a refresh succeeded with a token that was itself returned by a refresh
C24_Witness ==
    /\ response.op = "refresh" /\ response.status = 200
    /\ ~response.started.afterRefresh /\ ~response.started.afterLogout
    /\ \E r \in tokens :
          /\ r.token = hash_encoded(response.presented, salt)
          /\ parentOf[r.id] # 0

\* the caller of c holds an access token that has not expired
HoldsValidAccess(c) ==
    \E a \in IssuedOf("Access") :
        /\ a.claims.user_id = c.user_data.user_id
        /\ a.claims.exp >= now

\* C26: no refresh gets past the rotation lookup with a refresh token whose
\* exp is earlier than the current time: such a request is answered "invalid
\* or expired" and nothing is rotated, also while its row is unused.
C26_ExpiredRefreshRejected ==
    [][/\ \A c \in LookupsReturned :
             HoldsValidAccess(c) => c.presented.claims.exp >= now
       /\ \A c \in BagToSet(calls) :
             RefreshSucceeds(c) => c.presented.claims.exp >= now]_vars

\* C27: a POST /refresh runs the refresh handler only after auth_middleware
\* has verified the access token of the same request, and a request whose
\* Authorization header the middleware does not accept is answered 401
\* Unauthorized.
C27_RefreshGated ==
    response.op = "POST /refresh"
       => LET d == AuthDecision(response.header, accessKey, response.at)
          IN /\ response.handler => d.outcome = "Next"
             /\ d.outcome = "Unauthorized" => response.status = 401

\* C28: a logout removes no row other than the one holding the hash of the
\* presented token and changes no other row and no user: rows of other
\* sessions of the same user and the rows of other users stay as they are.
C28_LogoutFrame ==
    [][logout =>
          /\ users' = users
          /\ tokens' \subseteq tokens
          /\ \A r \in tokens :
                r.token # hash_encoded(response'.presented, salt)
                   => r \in tokens']_vars

\* a logout has deleted the one row ever deleted, with another session of
\* the same user and a session of another user still stored
C28_Witness ==
    /\ LogoutDone(response)
    /\ response.presented \in IssuedOf("Refresh")
    /\ RowsOf(response.presented) = {}
    /\ Cardinality(tokens) = nextTokenId - 2
    /\ \E r, q \in tokens :
          /\ r.user_id = response.presented.claims.user_id
          /\ q.user_id # response.presented.claims.user_id

\* the login call c is answered in this step
LoginAnswers(c) ==
    /\ c.op = "login"
    /\ calls' = calls (-) SetToBag({c})
    /\ response'.op = "login"

\* the credentials of c are those a registered client signed up with
GoodCredentials(c) ==
    \E p \in clients :
        /\ p.email = c.payload.email
        /\ p.password = c.payload.password
        /\ \E u \in users : u.email = p.email

\* C29: a login that is answered with an error (an Authorization header was
\* sent, the email is not registered, or the password is not the registered
\* one) inserts no row, changes no row and carries no token in its answer;
\* a login with an unregistered email or a wrong password is never answered
\* with success.
C29_FailedLoginFrame ==
    [][/\ (login_select \/ login_issue)
             /\ response'.op = "login" /\ response'.status # 200
          => /\ UNCHANGED <<tokens, nextTokenId, issued, users>>
             /\ DOMAIN response' \cap {"access_token", "refresh_token"} = {}
       /\ \A c \in BagToSet(calls) :
             LoginAnswers(c) /\ ~GoodCredentials(c) => response'.status # 200]_vars

\* a login with the wrong password for a registered email has been rejected
\* while the store holds the session of an earlier login
C29_Witness ==
    /\ response.op = "login" /\ response.status = 400
    /\ response.error = "Authentication failed"
    /\ \E r \in tokens : r.email = response.payload.email

\* C30: no two rows of table tokens hold the same hash, so the scan of
\* find_matching_token has at most one row that verifies against a presented
\* token, and the row it returns is that row.
C30_UniqueHashes ==
    /\ \A r, q \in tokens : r.token = q.token => r = q
    /\ \A t \in RefreshInputs :
          /\ Cardinality(Matching(tokens, t)) <= 1
          /\ \A u \in users :
                LET found == find_matching_token(UnusedRowsOf(u.id), t)
                IN found.ok => Matching(tokens, t) = {found.token}

\* a rotation lookup has returned its match while the caller had a second
\* unused row the scan went through
C30_Witness ==
    \E c \in BagToSet(calls) :
        /\ c.op = "refresh" /\ c.pc = "mark"
        /\ c.matched_token \in tokens
        /\ Matching(tokens, c.presented) = {c.matched_token}
        /\ Cardinality(UnusedRowsOf(c.user_data.user_id)) >= 2
---------------------------------------------------------------------------
(* Registration *)

\* the register calls that leave the INSERT of add_user in this step
Inserting == {c \in BagToSet(calls) :
                 /\ c.op = "register" /\ c.pc = "insert"
                 /\ CopiesIn(c, calls') < CopiesIn(c, calls)}

\* C31: no two rows of table users hold the same email, in any interleaving
\* of register calls; a row is only ever added with an email no row holds,
\* and a register whose email a row already holds when it reaches the INSERT
\* is answered with an error and leaves table users as it was.
C31_EmailUnique ==
    /\ [](\A u, v \in users : u.email = v.email => u = v)
    /\ [][/\ users' # users
             => \E row \in users' :
                   /\ users' = users \cup {row}
                   /\ \A u \in users : u.email # row.email
          /\ \A c \in Inserting :
                (\E u \in users : u.email = c.payload.email)
                   => /\ users' = users
                      /\ calls' = calls (-) SetToBag({c})
                      /\ response'.op = "register"
                      /\ response'.status # 200]_vars

\* a register that passed the existence check was turned down by the INSERT
\* because a concurrent register had taken its email under another name
C31_Witness ==
    /\ response.op = "register" /\ response.status = 400
    /\ response.field = "database"
    /\ \E u \in users : u.email = Alice.email /\ u.name = Dave.name
    /\ ~\E u \in users : u.name = Alice.name

\* the register call c is answered with success in this step
RegisterSucceeds(c) ==
    /\ c.op = "register" /\ c.pc = "fetch"
    /\ calls' = calls (-) SetToBag({c})
    /\ response'.op = "register" /\ response'.status = 200

\* C32: in every interleaving of register calls no two rows of table users
\* hold the same name, and a register answered with success returns the id
\* of the row its own INSERT created.
C32_NameUnique ==
    /\ [](\A u, v \in users : u.name = v.name => u = v)
    /\ [][\A c \in BagToSet(calls) :
             RegisterSucceeds(c) => response'.user_id = c.created]_vars
====
